---- MODULE Spec2Model ----
(***************************************************************************)
(* The AI decision pipeline of the trading bot: the deepseek client        *)
(* (internal/ai/deepseek/client.go), the qwen client (internal/ai/types.go)*)
(* and the HTTP transport they use (internal/mcp/client.go).               *)
(*                                                                         *)
(* Text is modelled as a sequence of tokens.  A token is one character     *)
(* that the code looks at (a backquote, " ", "\n", "{", "}"), a word, or the name  *)
(* of the interior of a JSON object (see Body).  An error value is a       *)
(* record [typ, text]: typ is the structured type errors.As can find in    *)
(* the chain, text the words of err.Error().                               *)
(***************************************************************************)
EXTENDS Integers, Sequences, FiniteSets, TLC

VARIABLES
    apiKey,     \* deepseek Client.apiKey, the stored credential
    lastSet,    \* the argument of the latest completed SetDeepSeekAPIKey call
    pc,         \* where the calling goroutine is
    call,       \* the entry point running and its arguments
    attempt,    \* CallWithMessages: the loop variable
    lastErr,    \* CallWithMessages: lastErr
    httpLog,    \* the outbound HTTP requests of this call
    errLog,     \* what sendCompletion returned, attempt by attempt
    inflight,   \* HTTP requests in flight
    delays,     \* the time.Sleep durations of this call, in seconds
    cancelled,  \* the caller's ctx is done
    ret,        \* what the entry point returned
    probe,      \* the latest call of a pure function: its name, arguments and result
    mgr,        \* the TraderManager, its callers and the goroutines of Run
    store,      \* the file store, its writers and its readers
    pool        \* the coin pool Service, its clock and its callers

vars == <<apiKey, lastSet, pc, call, attempt, lastErr, httpLog, errLog,
          inflight, delays, cancelled, ret, probe, mgr, store, pool>>

\* the state of the components around the decision pipeline
serviceVars == <<mgr, store, pool>>

-----------------------------------------------------------------------------
(* strings *)

IsSpace(c) == c \in {" ", "\n", "\t"}

RECURSIVE TrimLeft(_)
TrimLeft(s) == IF s # <<>> /\ IsSpace(Head(s)) THEN TrimLeft(Tail(s)) ELSE s

RECURSIVE TrimRight(_)
TrimRight(s) ==
    IF s # <<>> /\ IsSpace(s[Len(s)]) THEN TrimRight(SubSeq(s, 1, Len(s) - 1)) ELSE s

\* strings.TrimSpace
TrimSpace(s) == TrimRight(TrimLeft(s))

\* strings.HasPrefix, strings.HasSuffix
HasPrefix(s, p) == Len(s) >= Len(p) /\ SubSeq(s, 1, Len(p)) = p
HasSuffix(s, p) == Len(s) >= Len(p) /\ SubSeq(s, Len(s) - Len(p) + 1, Len(s)) = p

\* strings.TrimPrefix, strings.TrimSuffix
TrimPrefix(s, p) == IF HasPrefix(s, p) THEN SubSeq(s, Len(p) + 1, Len(s)) ELSE s
TrimSuffix(s, p) == IF HasSuffix(s, p) THEN SubSeq(s, 1, Len(s) - Len(p)) ELSE s

\* strings.Index and strings.LastIndex of a one-token string, 1-based; 0 is Go's -1
Index(s, c) ==
    IF \E i \in 1..Len(s) : s[i] = c
    THEN CHOOSE i \in 1..Len(s) : s[i] = c /\ \A j \in 1..(i - 1) : s[j] # c
    ELSE 0
LastIndex(s, c) ==
    IF \E i \in 1..Len(s) : s[i] = c
    THEN CHOOSE i \in 1..Len(s) : s[i] = c /\ \A j \in (i + 1)..Len(s) : s[j] # c
    ELSE 0

\* strings.Contains(text, word), at the granularity of words
Contains(s, w) == \E i \in 1..Len(s) : s[i] = w

\* strings.ToLower on one token; the upper-case tokens of the model are listed
ToLowerTok(c) ==
    CASE c = "JSON" -> "json"
      [] c = "OPEN_LONG" -> "open_long"
      [] c = "Wait" -> "wait"
      [] OTHER -> c
ToLower(s) == [i \in 1..Len(s) |-> ToLowerTok(s[i])]

\* %d of a small non-negative integer
Digit(n) == CASE n = 0 -> "0" [] n = 1 -> "1" [] n = 2 -> "2" [] n = 3 -> "3"
              [] n = 4 -> "4" [] n = 5 -> "5" [] n = 6 -> "6" [] n = 7 -> "7"
              [] n = 8 -> "8" [] n = 9 -> "9"
RECURSIVE FormatInt(_)
FormatInt(n) == IF n < 10 THEN <<Digit(n)>> ELSE FormatInt(n \div 10) \o <<Digit(n % 10)>>

-----------------------------------------------------------------------------
(* error values *)

NoErr == [typ |-> "nil", text |-> <<>>]

\* errors.New(text)
NewErr(text) == [typ |-> "plain", text |-> text]

\* fmt.Errorf(prefix + ": %w", err): the chain keeps the structured type
Wrap(prefix, err) == [typ |-> err.typ, text |-> prefix \o err.text]

\* a missing-key error that the retry test takes for a network failure
ErrMissingKeyRetryable == NewErr(<<"deepseek", "api", "key", "unset", "network">>)

ErrMissingKey == NewErr(<<"deepseek", "api", "key", "unset">>)

\* the substrings isNetworkError looks for in err.Error()
NetworkWords == {"connection", "network", "timeout", "reset", "refused"}

isNetworkError(err) ==
    /\ err.typ # "nil"
    /\ \/ err.typ = "timeout"   \* errors.As(err, &netErr) && netErr.Timeout()
       \/ err.typ = "dns"       \* errors.As(err, &dnsErr)
       \/ err.typ = "op"        \* errors.As(err, &opErr)
       \/ \E w \in NetworkWords : Contains(err.text, w)

\* a loop bound off by one
maxRetriesOffByOne == 3 + 1

maxRetries == 3

baseRetryDelay == 2

-----------------------------------------------------------------------------
(* the JSON objects a model output can hold *)

Str(ty, s, n) == [ty |-> ty, s |-> s, n |-> n]
NoNotes == [k |-> "absent", items |-> <<>>]
Obj(action, conf, lev, sl, tp, notes, bad) ==
    [action |-> action, confidence |-> conf, reason |-> <<"r">>,
     sizeMultiplier |-> 1, targetLeverage |-> lev, stopLossPercent |-> sl,
     takeProfitPercent |-> tp, trailingStopPercent |-> 0,
     riskNotes |-> notes, sentiment |-> <<>>, bad |-> bad]

BodyNames == {"Jok", "Jcase", "Jlev10", "Jneg", "Jrr2", "Jyolo", "Jzero",
              "Jnote1", "Jmixed", "Jnum", "Jbad", "Jnews", "Jbool", "Jobj", "Jempty",
              "Jblank"}

\* the interior of the JSON object a body token stands for
Body(j) ==
    CASE j = "Jok" ->
           Obj(<<"open_long">>, 80, 5, 1, 3,
               [k |-> "list", items |-> <<Str("str", <<"a">>, 0), Str("str", <<"b">>, 0)>>], FALSE)
      [] j = "Jcase" -> Obj(<<" ", "OPEN_LONG">>, 80, 0, 0, 0, NoNotes, FALSE)
      [] j = "Jlev10" -> Obj(<<"wait">>, 50, 10, 0, 0, NoNotes, FALSE)
      [] j = "Jneg" -> Obj(<<"hold">>, 50, -1, 0, 0, NoNotes, FALSE)
      [] j = "Jrr2" -> Obj(<<"open_short">>, 90, 3, 1, 2, [k |-> "null", items |-> <<>>], FALSE)
      [] j = "Jyolo" -> Obj(<<"yolo">>, 99, 1, 0, 0, NoNotes, FALSE)
      [] j = "Jzero" -> Obj(<<>>, 0, 0, 0, 0, NoNotes, FALSE)
      [] j = "Jnote1" ->
           Obj(<<"close">>, 60, 0, 0, 0,
               [k |-> "str", items |-> <<Str("str", <<"single", " ", "note">>, 0)>>], FALSE)
      [] j = "Jmixed" ->
           Obj(<<"reduce">>, 60, 0, 0, 0,
               [k |-> "list",
                items |-> <<Str("num", <<>>, 1), Str("str", <<"b">>, 0), Str("bool", <<>>, 1)>>],
               FALSE)
      [] j = "Jnum" -> Obj(<<"wait">>, 60, 0, 0, 0, [k |-> "num", items |-> <<>>], FALSE)
      [] j = "Jbad" -> Obj(<<"wait">>, 0, 0, 0, 0, NoNotes, TRUE)
      [] j = "Jbool" -> Obj(<<"wait">>, 60, 0, 0, 0, [k |-> "bool", items |-> <<>>], FALSE)
      [] j = "Jobj" -> Obj(<<"wait">>, 60, 0, 0, 0, [k |-> "obj", items |-> <<>>], FALSE)
      [] j = "Jempty" -> Obj(<<"hold">>, 40, 2, 0, 0, [k |-> "list", items |-> <<>>], FALSE)
      [] j = "Jblank" ->
           Obj(<<"hold">>, 40, 0, 0, 0,
               [k |-> "str", items |-> <<Str("str", <<" ">>, 0)>>], FALSE)
      [] j = "Jnews" ->
           [Obj(<<>>, 0, 0, 0, 0, NoNotes, FALSE) EXCEPT !.sentiment = <<"bullish">>]

\* ai.DecisionResponse{}
ZeroResponse ==
    [Action |-> <<>>, Confidence |-> 0, Reason |-> <<>>,
     SizeMultiplier |-> 0, TargetLeverage |-> 0, StopLossPercent |-> 0,
     TakeProfitPercent |-> 0, TrailingStopPercent |-> 0,
     RiskNotes |-> <<>>, RawContent |-> <<>>, CoTTrace |-> <<>>]

\* whether the text, white space around it removed, is one JSON object
IsObject(t) == Len(t) = 3 /\ t[1] = "{" /\ t[3] = "}" /\ t[2] \in BodyNames

ObjectOf(t) == Body(t[2])

\* a stringification that keeps strings only
SprintStringsOnly(item) == item.s

\* fmt.Sprint of a decoded JSON scalar
Sprint(item) ==
    CASE item.ty = "str" -> item.s
      [] item.ty = "num" -> FormatInt(item.n)
      [] item.ty = "bool" -> IF item.n = 1 THEN <<"true">> ELSE <<"false">>

\* parseRiskNotes: [notes, ok]
parseRiskNotes(raw) ==
    IF raw.k \in {"absent", "null"} THEN [notes |-> <<>>, ok |-> TRUE]
    ELSE IF raw.k = "list" /\ \A i \in 1..Len(raw.items) : raw.items[i].ty = "str"
    THEN [notes |-> [i \in 1..Len(raw.items) |-> raw.items[i].s], ok |-> TRUE]
    ELSE IF raw.k = "str"
    THEN IF TrimSpace(raw.items[1].s) = <<>>
         THEN [notes |-> <<>>, ok |-> TRUE]
         ELSE [notes |-> <<raw.items[1].s>>, ok |-> TRUE]
    ELSE IF raw.k = "list"
    THEN [notes |-> [i \in 1..Len(raw.items) |-> Sprint(raw.items[i])], ok |-> TRUE]
    ELSE [notes |-> <<>>, ok |-> FALSE]

\* a decoder that drops the adjustments
FieldsOfNoAdjustments(o) ==
    [ZeroResponse EXCEPT
        !.Action = o.action, !.Confidence = o.confidence, !.Reason = o.reason]

\* the fields json.Unmarshal copies out of an object
FieldsOf(o) ==
    [ZeroResponse EXCEPT
        !.Action = o.action, !.Confidence = o.confidence, !.Reason = o.reason,
        !.SizeMultiplier = o.sizeMultiplier, !.TargetLeverage = o.targetLeverage,
        !.StopLossPercent = o.stopLossPercent, !.TakeProfitPercent = o.takeProfitPercent,
        !.TrailingStopPercent = o.trailingStopPercent]

\* decodeDecision once the object is decoded into rawDecision
decodeFields(o, n) ==
    IF ~n.ok THEN [resp |-> ZeroResponse, ok |-> FALSE]
    ELSE [resp |-> [FieldsOf(o) EXCEPT !.RiskNotes = n.notes], ok |-> TRUE]

decodeObject(o) ==
    IF o.bad THEN [resp |-> ZeroResponse, ok |-> FALSE]
    ELSE decodeFields(o, parseRiskNotes(o.riskNotes))

\* json.Unmarshal accepts white space around the top-level value
decodeTrimmed(t) ==
    IF ~IsObject(t) THEN [resp |-> ZeroResponse, ok |-> FALSE]
    ELSE decodeObject(ObjectOf(t))

\* decodeDecision: [resp, ok]
decodeDecision(content) == decodeTrimmed(TrimSpace(content))

\* one backquote character
Tick == "BQ"

\* the fence marker, three backquotes
Fence == <<Tick, Tick, Tick>>

\* s[idx+1:] when idx is an index of s, the empty string when it is Go's -1
afterIndex(t, idx) == IF idx # 0 THEN SubSeq(t, idx + 1, Len(t)) ELSE <<>>

\* the language tag line after the opening fence
dropLanguageTag(t) ==
    IF HasPrefix(ToLower(t), <<"json">>) THEN afterIndex(t, Index(t, "\n")) ELSE t

\* the statements under if strings.HasPrefix(trimmed, fence), on the trimmed text
stripFence(t) ==
    IF ~HasPrefix(t, Fence) THEN t
    ELSE TrimSpace(TrimSuffix(TrimSpace(dropLanguageTag(TrimSpace(TrimPrefix(t, Fence)))),
                              Fence))

trimJSONFences(s) == stripFence(TrimSpace(s))

\* cleanJSON of the deepseek package, used on the news path
cleanJSON(s) ==
    IF ~HasPrefix(TrimSpace(s), Fence) THEN TrimSpace(s)
    ELSE TrimSpace(TrimSuffix(TrimSpace(dropLanguageTag(TrimSpace(
             TrimPrefix(TrimSpace(s), Fence)))), Fence))

\* strings.Trim(s, backquote)
RECURSIVE TrimTicks(_)
TrimTicks(s) ==
    IF s # <<>> /\ Head(s) = Tick THEN TrimTicks(Tail(s))
    ELSE IF s # <<>> /\ s[Len(s)] = Tick THEN TrimTicks(SubSeq(s, 1, Len(s) - 1))
    ELSE s

\* extractCoTTrace from idx := strings.Index(trimmed, "{") on
traceBefore(t, idx) ==
    IF idx <= 1 THEN <<>>
    ELSE TrimSpace(TrimTicks(TrimSpace(SubSeq(t, 1, idx - 1))))

\* extractCoTTrace after the fence line has been dropped
traceOf(t) == traceBefore(t, Index(t, "{"))

\* extractCoTTrace on the trimmed text
traceTrimmed(t) ==
    IF HasPrefix(ToLower(t), Fence \o <<"json">>) /\ Index(t, "\n") # 0
    THEN traceOf(TrimSpace(afterIndex(t, Index(t, "\n"))))
    ELSE traceOf(t)

extractCoTTrace(raw) == traceTrimmed(TrimSpace(raw))

\* parseFullDecisionResponse: a decoded response with RawContent and CoTTrace set
parsed(r, raw, content) ==
    [resp |-> [r EXCEPT !.RawContent = content, !.CoTTrace = extractCoTTrace(raw)],
     err |-> NoErr]

parseFailed(content) ==
    [resp |-> ZeroResponse, err |-> NewErr(<<"cannot", "parse:">> \o content)]

\* the second try: content[start : end+1]
parseSnippet(raw, content, d) ==
    IF d.ok THEN parsed(d.resp, raw, content) ELSE parseFailed(content)

\* a parse that never tries the part between the braces
parseBracesNever(raw, content, start, end) == parseFailed(content)

parseBraces(raw, content, start, end) ==
    IF start >= 1 /\ end > start
    THEN parseSnippet(raw, content, decodeDecision(SubSeq(content, start, end)))
    ELSE parseFailed(content)

\* the first try: the whole content
parseWhole(raw, content, d) ==
    IF d.ok THEN parsed(d.resp, raw, content)
    ELSE parseBraces(raw, content, Index(content, "{"), LastIndex(content, "}"))

parseContent(raw, content) ==
    IF content = <<>>
    THEN [resp |-> ZeroResponse, err |-> NewErr(<<"no", "content">>)]
    ELSE parseWhole(raw, content, decodeDecision(content))

\* parseFullDecisionResponse: [resp, err]
parseFullDecisionResponse(raw) == parseContent(raw, trimJSONFences(raw))

-----------------------------------------------------------------------------
(* validation *)

validActions ==
    {<<"open_long">>, <<"open_short">>, <<"increase_long">>, <<"increase_short">>,
     <<"close">>, <<"exit">>, <<"reduce">>, <<"hold">>, <<"wait">>}

\* the denominator of the tolerance 1e-9
TolDen == 1000000000

\* the comparison without the tolerance
rrBelowNoTolerance(tp, sl, min) == min * sl - tp > 0

\* rr + 1e-9 < min, for rr = tp / sl with sl > 0, in exact arithmetic:
\* tp/sl + 1/TolDen < min  <=>  (min*sl - tp) * TolDen > sl  <=>  min*sl - tp > sl \div TolDen
rrBelow(tp, sl, min) == min * sl - tp > sl \div TolDen

\* a validation without the leverage ceiling
validateNumbersNoCeiling(decision, limits) ==
    IF decision.TargetLeverage < 0
    THEN NewErr(<<"targetLeverage", "negative">>)
    ELSE IF /\ decision.StopLossPercent > 0
            /\ decision.TakeProfitPercent > 0
            /\ limits.MinRiskRewardRatio > 0
            /\ rrBelow(decision.TakeProfitPercent, decision.StopLossPercent,
                       limits.MinRiskRewardRatio)
    THEN NewErr(<<"risk", "reward", "below", "minimum">>)
    ELSE NoErr

\* validateDecisionResponse from targetLev := ... on
validateNumbers(decision, limits) ==
    IF decision.TargetLeverage < 0
    THEN NewErr(<<"targetLeverage", "negative">>)
    ELSE IF limits.MaxLeverage > 0 /\ decision.TargetLeverage > limits.MaxLeverage
    THEN NewErr(<<"targetLeverage", "above", "limit">>)
    ELSE IF /\ decision.StopLossPercent > 0
            /\ decision.TakeProfitPercent > 0
            /\ limits.MinRiskRewardRatio > 0
            /\ rrBelow(decision.TakeProfitPercent, decision.StopLossPercent,
                       limits.MinRiskRewardRatio)
    THEN NewErr(<<"risk", "reward", "below", "minimum">>)
    ELSE NoErr

validateAction(action, decision, limits) ==
    IF action \notin validActions /\ action # <<>>
    THEN NewErr(<<"unknown", "action:">> \o decision.Action)
    ELSE validateNumbers(decision, limits)

\* a validation that compares the action as written
validateDecisionResponseAsWritten(decision, limits) ==
    validateAction(decision.Action, decision, limits)

\* validateDecisionResponse: the error, NoErr for nil
validateDecisionResponse(decision, limits) ==
    validateAction(ToLower(TrimSpace(decision.Action)), decision, limits)

-----------------------------------------------------------------------------
(* the qwen client's decoding *)

\* cleanJSON of the qwen package
qwenCleanJSON(s) ==
    IF ~HasPrefix(TrimSpace(s), Fence) THEN TrimSpace(s)
    ELSE TrimSpace(TrimSuffix(TrimSpace(dropLanguageTag(TrimSpace(
             TrimPrefix(TrimSpace(s), Fence)))), Fence))

\* json.Unmarshal into ai.DecisionResponse: riskNotes decodes as []string only
qwenUnmarshalObject(o, raw) ==
    IF o.bad THEN [resp |-> ZeroResponse, ok |-> FALSE]
    ELSE IF raw.k \in {"absent", "null"} THEN [resp |-> FieldsOf(o), ok |-> TRUE]
    ELSE IF raw.k = "list" /\ \A i \in 1..Len(raw.items) : raw.items[i].ty = "str"
    THEN [resp |-> [FieldsOf(o) EXCEPT
                      !.RiskNotes = [i \in 1..Len(raw.items) |-> raw.items[i].s]],
          ok |-> TRUE]
    ELSE [resp |-> ZeroResponse, ok |-> FALSE]

qwenUnmarshalTrimmed(t) ==
    IF ~IsObject(t) THEN [resp |-> ZeroResponse, ok |-> FALSE]
    ELSE qwenUnmarshalObject(ObjectOf(t), ObjectOf(t).riskNotes)

qwenUnmarshalDecision(content) == qwenUnmarshalTrimmed(TrimSpace(content))

-----------------------------------------------------------------------------
(* news sentiment *)

\* news.SentimentSummary{}
ZeroSummary == [Sentiment |-> <<>>]

\* json.Unmarshal into news.SentimentSummary
unmarshalSummaryTrimmed(t) ==
    IF ~IsObject(t) \/ ObjectOf(t).bad
    THEN [summary |-> ZeroSummary, ok |-> FALSE]
    ELSE [summary |-> [Sentiment |-> ObjectOf(t).sentiment], ok |-> TRUE]

unmarshalSummary(content) == unmarshalSummaryTrimmed(TrimSpace(content))

-----------------------------------------------------------------------------
(* what the backend can answer *)

Bare(j) == <<"{", j, "}">>
Fenced(j) == Fence \o <<"json", "\n", "{", j, "}", "\n">> \o Fence
Pre(j) == <<"thinking", " ", "{", j, "}">>
Trail(j) == <<"{", j, "}", " ", "done">>

\* the texts a completion can carry
ModelOutputs ==
    {Bare(j) : j \in {"Jok", "Jcase", "Jlev10", "Jneg", "Jyolo", "Jnum", "Jnews"}}
    \cup {Fenced("Jok"), Pre("Jyolo"), Trail("Jrr2"), <<"sorry">>, <<>>}

\* the errors http.Client.Do can return
TErrTimeout == [typ |-> "timeout", text |-> <<"Post:", "context", "deadline", "exceeded">>]
TErrOp == [typ |-> "op", text |-> <<"Post:", "dial", "tcp:", "connection", "refused">>]
TErrReset == [typ |-> "plain", text |-> <<"Post:", "connection", "reset", "by", "peer">>]
TErrEOF == [typ |-> "neterr", text |-> <<"Post:", "EOF">>]
TErrCanceled == [typ |-> "neterr", text |-> <<"Post:", "context", "canceled">>]

TransportErrs == {TErrTimeout, TErrOp, TErrReset, TErrEOF}

\* the messages of the error field of a response body
ProviderMessages == {<<"insufficient", "balance">>, <<"upstream", "connection", "timeout">>}

Outcome(kind, err, text, output) ==
    [kind |-> kind, err |-> err, text |-> text, output |-> output]

\* one round trip ends in a transport error, a status >= 400, an undecodable body,
\* a body with an error field, a body without choices, or a completion
FailOutcomes ==
    {Outcome("transport", e, <<>>, <<>>) : e \in TransportErrs}
    \cup {Outcome("status", NoErr, <<"401">>, <<>>), Outcome("decode", NoErr, <<>>, <<>>),
          Outcome("no_choices", NoErr, <<>>, <<>>)}
    \cup {Outcome("payload_error", NoErr, m, <<>>) : m \in ProviderMessages}

Outcomes == FailOutcomes \cup {Outcome("ok", NoErr, t, <<>>) : t \in ModelOutputs}

\* the qwen body also carries output_text
QwenOutcomes ==
    Outcomes \cup {Outcome("ok", NoErr, <<>>, o) : o \in {Bare("Jlev10"), Fenced("Jok"), <<"sorry">>}}
             \cup {Outcome("transport", TErrCanceled, <<>>, <<>>)}

\* mcp PostJSON: the error it returns, NoErr for nil
PostJSON(o) ==
    CASE o.kind = "transport" -> Wrap(<<"do", "request:">>, o.err)
      [] o.kind = "status" -> NewErr(<<"http", "status">> \o o.text)
      [] o.kind = "decode" ->
           Wrap(<<"decode", "response:">>, NewErr(<<"invalid", "character">>))
      [] OTHER -> NoErr

\* sendCompletion once PostJSON has returned err
afterPostJSON(o, err) ==
    IF err # NoErr
    THEN [content |-> <<>>, err |-> Wrap(<<"deepseek", "request:">>, err)]
    ELSE IF o.kind = "payload_error" THEN [content |-> <<>>, err |-> NewErr(o.text)]
    ELSE IF o.kind = "no_choices"
    THEN [content |-> <<>>, err |-> NewErr(<<"deepseek", "no", "result">>)]
    ELSE [content |-> o.text, err |-> NoErr]

\* sendCompletion after the request has been sent: [content, err]
sendCompletionResult(o) == afterPostJSON(o, PostJSON(o))

\* qwen send: [content, output, err]
qwenSend(o) ==
    CASE o.kind = "transport" ->
           [content |-> <<>>, output |-> <<>>, err |-> Wrap(<<"qwen", "request:">>, o.err)]
      [] o.kind = "status" ->
           [content |-> <<>>, output |-> <<>>, err |-> NewErr(<<"qwen", "status">> \o o.text)]
      [] o.kind = "decode" ->
           [content |-> <<>>, output |-> <<>>,
            err |-> Wrap(<<"decode", "completion:">>, NewErr(<<"invalid", "character">>))]
      [] o.kind = "payload_error" ->
           [content |-> <<>>, output |-> <<>>, err |-> NewErr(o.text)]
      [] o.kind = "no_choices" ->
           [content |-> <<>>, output |-> <<>>, err |-> NewErr(<<"qwen", "no", "result">>)]
      [] OTHER -> [content |-> o.text, output |-> o.output, err |-> NoErr]

-----------------------------------------------------------------------------
(* the entry points after their network call *)

Ret(resp, summary, content, err) ==
    [resp |-> resp, summary |-> summary, content |-> content, err |-> err]

NoRet == Ret(ZeroResponse, ZeroSummary, <<>>, NoErr)

\* deepseek GenerateDecision from the return of CallWithMessages on
\* GenerateDecision returning the decision next to the validation error
validatedLeaky(decision, verr) == Ret(decision, ZeroSummary, <<>>, verr)

\* GenerateDecision: the validation and the return
validated(decision, verr) ==
    IF verr # NoErr THEN Ret(ZeroResponse, ZeroSummary, <<>>, verr)
    ELSE Ret(decision, ZeroSummary, <<>>, NoErr)

\* GenerateDecision: decision.RawContent = respContent, and the CoTTrace fallback
retained(resp, respContent) ==
    [resp EXCEPT
       !.RawContent = respContent,
       !.CoTTrace = IF resp.CoTTrace = <<>> THEN extractCoTTrace(respContent)
                    ELSE resp.CoTTrace]

validateRetained(decision, limits) ==
    validated(decision, validateDecisionResponse(decision, limits))

afterParse(p, respContent, limits) ==
    IF p.err # NoErr THEN Ret(ZeroResponse, ZeroSummary, <<>>, p.err)
    ELSE validateRetained(retained(p.resp, respContent), limits)

generateDecisionResult(respContent, err, limits) ==
    IF err # NoErr THEN Ret(ZeroResponse, ZeroSummary, <<>>, err)
    ELSE afterParse(parseFullDecisionResponse(respContent), respContent, limits)

\* deepseek AnalyzeNews from the return of CallWithMessages on
newsSummary(u) ==
    IF ~u.ok
    THEN Ret(ZeroResponse, ZeroSummary, <<>>,
             Wrap(<<"parse", "news", "sentiment:">>, NewErr(<<"invalid", "character">>)))
    ELSE IF u.summary.Sentiment = <<>>
    THEN Ret(ZeroResponse, [Sentiment |-> <<"neutral">>], <<>>, NoErr)
    ELSE Ret(ZeroResponse, u.summary, <<>>, NoErr)

analyzeNewsResult(respContent, err) ==
    IF err # NoErr THEN Ret(ZeroResponse, ZeroSummary, <<>>, err)
    ELSE newsSummary(unmarshalSummary(cleanJSON(respContent)))

\* what the entry point that called CallWithMessages returns
finish(op, content, err, limits) ==
    CASE op = "GenerateDecision" -> generateDecisionResult(content, err, limits)
      [] op = "AnalyzeNews" -> analyzeNewsResult(content, err)
      [] OTHER -> Ret(ZeroResponse, ZeroSummary, content, err)

\* qwen GenerateDecision from the return of send on
qwenDecisionFallback(r, second) ==
    IF r.content = <<>> /\ r.output # <<>> /\ second.ok
    THEN Ret(second.resp, ZeroSummary, <<>>, NoErr)
    ELSE Ret(ZeroResponse, ZeroSummary, <<>>,
             Wrap(<<"parse", "decision:">>, NewErr(<<"invalid", "character">>)))

qwenDecision(r, first) ==
    IF first.ok THEN Ret(first.resp, ZeroSummary, <<>>, NoErr)
    ELSE qwenDecisionFallback(r, qwenUnmarshalDecision(qwenCleanJSON(r.output)))

qwenGenerateDecisionResult(r) ==
    IF r.err # NoErr THEN Ret(ZeroResponse, ZeroSummary, <<>>, r.err)
    ELSE qwenDecision(r, qwenUnmarshalDecision(qwenCleanJSON(r.content)))

\* qwen AnalyzeNews from the return of send on
qwenNewsFallback(r, second) ==
    IF r.content = <<>> /\ r.output # <<>> /\ second.ok
    THEN Ret(ZeroResponse, second.summary, <<>>, NoErr)
    ELSE Ret(ZeroResponse, ZeroSummary, <<>>,
             Wrap(<<"parse", "news", "sentiment:">>, NewErr(<<"invalid", "character">>)))

qwenNews(r, first) ==
    IF first.ok
    THEN IF first.summary.Sentiment = <<>>
         THEN Ret(ZeroResponse, [Sentiment |-> <<"neutral">>], <<>>, NoErr)
         ELSE Ret(ZeroResponse, first.summary, <<>>, NoErr)
    ELSE qwenNewsFallback(r, unmarshalSummary(qwenCleanJSON(r.output)))

qwenAnalyzeNewsResult(r) ==
    IF r.err # NoErr THEN Ret(ZeroResponse, ZeroSummary, <<>>, r.err)
    ELSE qwenNews(r, unmarshalSummary(qwenCleanJSON(r.content)))

-----------------------------------------------------------------------------
(* the inputs *)

\* the arguments SetDeepSeekAPIKey is called with
RawKeys == {<<" ">>, <<"k1">>, <<" ", "k2", " ">>}

\* the key the qwen client was constructed with
QwenKey == <<"q1">>

NoLimits == [MaxLeverage |-> 0, MinRiskRewardRatio |-> 0]

\* req.RiskLimits
Limits == {NoLimits, [MaxLeverage |-> 5, MinRiskRewardRatio |-> 3]}

\* no pure function has been called
NoProbe == [op |-> "none", in |-> <<>>, out |-> <<>>]

NoCall ==
    [provider |-> "none", op |-> "none", limits |-> NoLimits, articles |-> 0,
     keyAtEntry |-> <<>>]

Call(provider, op, limits, articles) ==
    [provider |-> provider, op |-> op, limits |-> limits, articles |-> articles,
     keyAtEntry |-> apiKey]

-----------------------------------------------------------------------------
(* the components around the pipeline, as constructed *)

\* the traders handed to Register, and at.Name(): two traders share a name
Traders == {"t1", "t2", "t3"}

Name(at) == IF at = "t3" THEN "b" ELSE "a"

TraderNames == {Name(at) : at \in Traders}

\* the goroutines that call Register
RegCallers == {"r1", "r2"}

\* manager.New: an empty registry.  first is the trader that was inserted first
\* under each name; reg, run and go are the positions of the Register callers,
\* of the Run caller and of the goroutines Run starts.
NewTraderManager ==
    [traders |-> [n \in TraderNames |-> "none"],
     first |-> [n \in TraderNames |-> "none"],
     writer |-> "none", readers |-> 0,
     reg |-> [c \in RegCallers |-> [pc |-> "idle", at |-> "nil", ret |-> "none"]],
     run |-> [pc |-> "idle", ret |-> "none"],
     go |-> [n \in TraderNames |-> "none"],
     errCh |-> <<>>, cap |-> 0, wg |-> 0, names |-> {}]

\* the two record files and their buffers
Kinds == {"decisions", "trades"}

\* the goroutines that record, and the one that reads
StoreWriters == {"w1", "w2"}

StoreReaders == {"q1"}

recentLimit == 200

\* no store yet: newFileStore has not been called
NoStore ==
    [open |-> FALSE, mu |-> "none",
     buf |-> [k \in Kinds |-> <<>>], file |-> [k \in Kinds |-> 0], written |-> 0,
     w |-> [x \in StoreWriters |-> [pc |-> "idle", kind |-> "decisions", ret |-> "none"]],
     r |-> [x \in StoreReaders |-> [pc |-> "idle", kind |-> "decisions", limit |-> 0,
                                     ret |-> <<>>, panic |-> FALSE]]]

\* the goroutines that call Select
PoolCallers == {"s1", "s2"}

\* a Select call that has not run: where it is, its limit, its reading of
\* time.Now, whether it was served from the cache, the refreshes it ran, the
\* cache and the expiry it found and left, and the list it returned
NoSelect ==
    [pc |-> "idle", done |-> FALSE, limit |-> 0, now |-> 0, hit |-> FALSE, refreshes |-> 0,
     before |-> [cache |-> <<>>, expires |-> 0],
     after |-> [cache |-> <<>>, expires |-> 0], ret |-> <<>>]

\* no service yet: NewService has not been called.  A coin is its symbol; the
\* zero time.Time of expires is 0 and the clock starts after it.
NoService ==
    [open |-> FALSE, useDefault |-> FALSE, mu |-> "none", cache |-> <<>>, expires |-> 0,
     clock |-> 1, sel |-> [c \in PoolCallers |-> NoSelect]]

-----------------------------------------------------------------------------
(* the deepseek client *)

\* apiKeyValue: the read of the credential under the read lock
apiKeyValue == apiKey

\* a key that can be set once and is kept afterwards
storeKeyOnce(old, key) == IF old = <<>> THEN TrimSpace(key) ELSE old

\* SetDeepSeekAPIKey: the value it stores, given the value held
storeKey(old, key) == TrimSpace(key)

\* a loop that retries after every error
retryAll(err) == TRUE

\* CallWithMessages: whether the loop goes on to another attempt after err
shouldRetry(err) == isNetworkError(err)

\* a constant backoff
backoffDelayConstant(n) == baseRetryDelay

\* CallWithMessages: the duration of the sleep after a failed attempt
backoffDelay(n) == n * baseRetryDelay

\* a loop that keeps the first error
keepFirstErr(old, err) == IF old = NoErr THEN err ELSE old

\* CallWithMessages: lastErr = err
nextLastErr(old, err) == err

\* CallWithMessages: the error after the loop
exhaustedErr(err) == Wrap(<<"retried">> \o FormatInt(maxRetries) \o <<"times,", "failed:">>, err)

\* entry points without the credential check
neverMissing(k) == FALSE

\* the entry check of GenerateDecision, AnalyzeNews and CallWithMessages
missingKey(k) == k = <<>>

Init ==
    /\ apiKey = <<>>
    /\ lastSet = <<>>
    /\ pc = "idle"
    /\ call = NoCall
    /\ attempt = 0
    /\ lastErr = NoErr
    /\ httpLog = <<>>
    /\ errLog = <<>>
    /\ inflight = 0
    /\ delays = <<>>
    /\ cancelled = FALSE
    /\ ret = NoRet
    /\ probe = NoProbe
    /\ mgr = NewTraderManager
    /\ store = NoStore
    /\ pool = NoService

SetDeepSeekAPIKey(key) ==
    /\ apiKey' = storeKey(apiKey, key)
    /\ lastSet' = key
    /\ UNCHANGED <<probe, serviceVars, pc, call, attempt, lastErr, httpLog, errLog, inflight,
                   delays, cancelled, ret>>

\* the caller cancels the ctx it passed to the running call
CancelCtx ==
    /\ pc \in {"cwm", "send", "http", "sleep", "qhttp"}
    /\ ~cancelled
    /\ cancelled' = TRUE
    /\ UNCHANGED <<probe, serviceVars, apiKey, lastSet, pc, call, attempt, lastErr, httpLog, errLog,
                   inflight, delays, ret>>

\* a new call starts with fresh locals and a live ctx
Fresh ==
    /\ pc \in {"idle", "done"}
    /\ attempt' = 0
    /\ lastErr' = NoErr
    /\ errLog' = <<>>
    /\ delays' = <<>>
    /\ cancelled' = FALSE
    /\ UNCHANGED <<probe, serviceVars, apiKey, lastSet>>

\* CallWithMessages up to its loop
EnterCallWithMessages(op, limits) ==
    IF missingKey(apiKeyValue)
    THEN /\ pc' = "done"
         /\ ret' = finish(op, <<>>, ErrMissingKey, limits)
         /\ attempt' = 0
    ELSE /\ pc' = "send"
         /\ ret' = NoRet
         /\ attempt' = 1

GenerateDecision(limits) ==
    /\ Fresh
    /\ call' = Call("deepseek", "GenerateDecision", limits, 0)
    /\ IF missingKey(apiKeyValue)
       THEN pc' = "done" /\ ret' = Ret(ZeroResponse, ZeroSummary, <<>>, ErrMissingKey)
       ELSE pc' = "cwm" /\ ret' = NoRet
    /\ httpLog' = <<>>
    /\ UNCHANGED inflight

AnalyzeNews(articles) ==
    /\ Fresh
    /\ call' = Call("deepseek", "AnalyzeNews", NoLimits, articles)
    /\ IF missingKey(apiKeyValue)
       THEN pc' = "done" /\ ret' = Ret(ZeroResponse, ZeroSummary, <<>>, ErrMissingKey)
       ELSE IF articles = 0
       THEN pc' = "done" /\ ret' = Ret(ZeroResponse, [Sentiment |-> <<"neutral">>], <<>>, NoErr)
       ELSE pc' = "cwm" /\ ret' = NoRet
    /\ httpLog' = <<>>
    /\ UNCHANGED inflight

\* CallWithMessages called on its own
CallWithMessages ==
    /\ pc \in {"idle", "done"}
    /\ call' = Call("deepseek", "CallWithMessages", NoLimits, 0)
    /\ lastErr' = NoErr
    /\ errLog' = <<>>
    /\ delays' = <<>>
    /\ cancelled' = FALSE
    /\ httpLog' = <<>>
    /\ EnterCallWithMessages("CallWithMessages", NoLimits)
    /\ UNCHANGED <<probe, serviceVars, apiKey, lastSet, inflight>>

\* CallWithMessages called by GenerateDecision or AnalyzeNews
CallWithMessagesInner ==
    /\ pc = "cwm"
    /\ EnterCallWithMessages(call.op, call.limits)
    /\ UNCHANGED <<probe, serviceVars, apiKey, lastSet, call, lastErr, httpLog, errLog, inflight, delays,
                   cancelled>>

\* the body of the loop of CallWithMessages once sendCompletion has returned
LoopBody(content, err) ==
    IF err = NoErr
    THEN /\ pc' = "done"
         /\ ret' = finish(call.op, content, NoErr, call.limits)
         /\ UNCHANGED <<lastErr, delays>>
    ELSE IF shouldRetry(err)
    THEN /\ lastErr' = nextLastErr(lastErr, err)
         /\ delays' = Append(delays, backoffDelay(attempt))
         /\ pc' = "sleep"
         /\ UNCHANGED ret
    ELSE /\ pc' = "done"
         /\ ret' = finish(call.op, <<>>, err, call.limits)
         /\ UNCHANGED <<lastErr, delays>>

\* sendCompletion up to the network: reads the credential, sends the request
SendCompletion ==
    /\ pc = "send"
    /\ IF apiKeyValue = <<>>
       THEN /\ errLog' = Append(errLog, [kind |-> "nokey", err |-> ErrMissingKey,
                                         content |-> <<>>])
            /\ LoopBody(<<>>, ErrMissingKey)
            /\ UNCHANGED <<httpLog, inflight>>
       ELSE /\ httpLog' = Append(httpLog, [attempt |-> attempt, key |-> apiKeyValue,
                                           arg |-> lastSet])
            /\ inflight' = inflight + 1
            /\ pc' = "http"
            /\ UNCHANGED <<errLog, lastErr, delays, ret>>
    /\ UNCHANGED <<probe, serviceVars, apiKey, lastSet, call, attempt, cancelled>>

\* the round trip ends: the rest of sendCompletion and of the loop body
HttpReturn(o) ==
    /\ pc = "http"
    /\ inflight' = inflight - 1
    /\ LET r == sendCompletionResult(o)
       IN  /\ errLog' = Append(errLog, [kind |-> o.kind, err |-> r.err,
                                        content |-> r.content])
           /\ LoopBody(r.content, r.err)
    /\ UNCHANGED <<probe, serviceVars, apiKey, lastSet, call, attempt, httpLog, cancelled>>

\* time.Sleep returns: the next iteration, or the end of the loop
BackoffDone ==
    /\ pc = "sleep"
    /\ attempt' = attempt + 1
    /\ IF attempt + 1 <= maxRetries
       THEN pc' = "send" /\ UNCHANGED ret
       ELSE pc' = "done" /\ ret' = finish(call.op, <<>>, exhaustedErr(lastErr), call.limits)
    /\ UNCHANGED <<probe, serviceVars, apiKey, lastSet, call, lastErr, httpLog, errLog, inflight, delays,
                   cancelled>>

-----------------------------------------------------------------------------
(* the qwen client *)

QwenGenerateDecision(limits) ==
    /\ Fresh
    /\ call' = Call("qwen", "GenerateDecision", limits, 0)
    /\ httpLog' = <<[attempt |-> 1, key |-> QwenKey, arg |-> QwenKey]>>
    /\ inflight' = inflight + 1
    /\ pc' = "qhttp"
    /\ ret' = NoRet

QwenAnalyzeNews(articles) ==
    /\ Fresh
    /\ call' = Call("qwen", "AnalyzeNews", NoLimits, articles)
    /\ IF articles = 0
       THEN /\ pc' = "done"
            /\ ret' = Ret(ZeroResponse, [Sentiment |-> <<"neutral">>], <<>>, NoErr)
            /\ httpLog' = <<>>
            /\ UNCHANGED inflight
       ELSE /\ pc' = "qhttp"
            /\ ret' = NoRet
            /\ httpLog' = <<[attempt |-> 1, key |-> QwenKey, arg |-> QwenKey]>>
            /\ inflight' = inflight + 1

\* the round trip of send ends; the request was built with the caller's ctx
QwenHttpReturn(o) ==
    /\ pc = "qhttp"
    /\ o.err = TErrCanceled => cancelled
    /\ inflight' = inflight - 1
    /\ pc' = "done"
    /\ ret' = IF call.op = "GenerateDecision"
              THEN qwenGenerateDecisionResult(qwenSend(o))
              ELSE qwenAnalyzeNewsResult(qwenSend(o))
    /\ errLog' = Append(errLog, [kind |-> o.kind, err |-> qwenSend(o).err,
                                  content |-> qwenSend(o).content])
    /\ UNCHANGED <<probe, serviceVars, apiKey, lastSet, call, attempt, lastErr, httpLog, delays, cancelled>>

-----------------------------------------------------------------------------

Next ==
    \/ \E key \in RawKeys : SetDeepSeekAPIKey(key)
    \/ CancelCtx
    \/ \E limits \in Limits : GenerateDecision(limits)
    \/ \E n \in {0, 1} : AnalyzeNews(n)
    \/ CallWithMessages
    \/ CallWithMessagesInner
    \/ SendCompletion
    \/ \E o \in Outcomes : HttpReturn(o)
    \/ BackoffDone
    \/ \E limits \in Limits : QwenGenerateDecision(limits)
    \/ \E n \in {0, 1} : QwenAnalyzeNews(n)
    \/ \E o \in QwenOutcomes : QwenHttpReturn(o)

Spec == Init /\ [][Next]_vars

-----------------------------------------------------------------------------
(* prompt synthesis *)

\* a reflection policy whose upper bounds are inclusive
buildReflectionPromptInclusive(sharpeRatio) ==
    IF sharpeRatio <= -5 THEN "halt"
    ELSE IF sharpeRatio <= 0 THEN "caution"
    ELSE IF sharpeRatio <= 7 THEN "steady"
    ELSE "expand"

\* buildReflectionPrompt: the tier whose text it writes.  Sharpe ratios are in
\* tenths: -5 stands for -0.5 and 7 for 0.7.
buildReflectionPrompt(sharpeRatio) ==
    IF sharpeRatio < -5 THEN "halt"
    ELSE IF sharpeRatio < 0 THEN "caution"
    ELSE IF sharpeRatio < 7 THEN "steady"
    ELSE "expand"

\* buildSystemPrompt: btcEthLeverage after its two defaults
leverageShown(lev, limits) ==
    IF lev > 0 THEN lev
    ELSE IF limits.MaxLeverage > 0 THEN limits.MaxLeverage
    ELSE 5

\* buildSystemPrompt: the line written when MinRiskRewardRatio > 0
rewardLine(limits) ==
    IF limits.MinRiskRewardRatio > 0
    THEN <<"rr>=">> \o FormatInt(limits.MinRiskRewardRatio)
    ELSE <<>>

buildSystemPrompt(req) ==
    <<"goal", buildReflectionPrompt(req.sharpe), "constraints", "leverage">>
    \o FormatInt(leverageShown(req.btcEthLeverage, req.limits))
    \o rewardLine(req.limits) \o <<"fields">>

\* formatNewsSummary: the score is in hundredths
formatNewsSummary(sentiment, score) ==
    IF sentiment = <<>> THEN <<"none">>
    ELSE IF score = 0 THEN sentiment
    ELSE sentiment \o <<"(">> \o FormatInt(score) \o <<")">>

\* buildUserPrompt: the news section, written unless the summary is empty or "none"
newsSection(summaryText, highlights) ==
    IF summaryText # <<>> /\ summaryText # <<"none">>
    THEN <<"news", "summary">> \o summaryText \o highlights
    ELSE <<>>

\* buildUserPrompt: now is what time.Now() returns when it is called
buildUserPrompt(req, now) ==
    <<"time", now, "symbol", req.symbol, "flat">>
    \o newsSection(formatNewsSummary(req.sentiment, req.score), req.highlights)
    \o <<"limits">>
    \o FormatInt(req.limits.MaxLeverage) \o FormatInt(req.limits.MinRiskRewardRatio)

-----------------------------------------------------------------------------
(* serialization in the documented schema *)

\* riskNotes as json.Marshal writes a []string
notesJSON(notes) ==
    [k |-> "list", items |-> [i \in 1..Len(notes) |-> Str("str", notes[i], 0)]]

\* json.Marshal of a decision: every field written under its tag, and the token
\* that stands for the object written
Marshal(d) ==
    CHOOSE j \in BodyNames :
        Body(j) = [Obj(d.Action, d.Confidence, d.TargetLeverage, d.StopLossPercent,
                       d.TakeProfitPercent, notesJSON(d.RiskNotes), FALSE)
                   EXCEPT !.reason = d.Reason, !.sizeMultiplier = d.SizeMultiplier,
                          !.trailingStopPercent = d.TrailingStopPercent]

\* the text handed to the parser: the object bare, or in a fenced block
schemaText(j, fenced) == IF fenced THEN Fenced(j) ELSE Bare(j)

-----------------------------------------------------------------------------
(* the pure functions, applied to enumerated arguments *)

clientVars == <<apiKey, lastSet, pc, call, attempt, lastErr, httpLog, errLog,
                inflight, delays, cancelled, ret>>

Probe(op, in, out) == [op |-> op, in |-> in, out |-> out]

\* Sharpe ratios in tenths, on both sides of every boundary
SharpeRatios == {-10, -6, -5, -4, -1, 0, 1, 6, 7, 8, 10}

\* action values: the nine names, other spellings, unknown names, blanks
ActionInputs ==
    validActions
    \cup {<<>>, <<" ">>, <<" ", "OPEN_LONG">>, <<"Wait">>, <<"open-long">>, <<"open-short">>,
          <<"yolo">>, <<"buy">>}

LeverageInputs == {-1, 0, 5, 10}

\* [stopLossPercent, takeProfitPercent] in one unit
StopInputs ==
    {<<0, 0>>, <<1, 0>>, <<0, 2>>, <<1, 2>>, <<1, 3>>, <<2, 5>>, <<2, 6>>, <<2, 7>>}

\* pairs whose ratio is 2 - 1e-9 and 2 - 2e-9, in units of 1e-9
TightStopInputs == {<<TolDen, 2 * TolDen - 1>>, <<TolDen, 2 * TolDen - 2>>}

LimitInputs == [MaxLeverage : {0, 5}, MinRiskRewardRatio : {0, 2, 3}]

DecisionOf(action, lev, stops) ==
    [ZeroResponse EXCEPT !.Action = action, !.TargetLeverage = lev,
                         !.StopLossPercent = stops[1], !.TakeProfitPercent = stops[2]]

\* the arguments of validateDecisionResponse: every action value on its own, and
\* every leverage, stop pair and limit under a valid, an empty and an unknown action
ValidateInputs ==
    {[decision |-> DecisionOf(a, 0, <<0, 0>>), limits |-> lim] :
        a \in ActionInputs, lim \in {NoLimits}}
    \cup {[decision |-> DecisionOf(a, l, st), limits |-> lim] :
        a \in {<<"hold">>, <<>>, <<"yolo">>}, l \in LeverageInputs, st \in StopInputs,
        lim \in LimitInputs}
    \cup {[decision |-> DecisionOf(<<"hold">>, 0, st), limits |-> lim] :
        st \in TightStopInputs, lim \in {x \in LimitInputs : x.MinRiskRewardRatio <= 2}}

\* the riskNotes values of the objects enumerated
RiskNotesInputs == {Body(j).riskNotes : j \in BodyNames}

\* texts with no fence, one fence and two fences
FenceInputs ==
    ModelOutputs
    \cup {Fenced("Jempty"), Fence \o <<"json">>, Fence \o <<" ">> \o Bare("Jok"),
          <<" ">> \o Bare("Jok") \o <<"\n">>,
          Fence \o Fenced("Jok") \o Fence,
          Fence \o <<"\n">> \o Fenced("Jok") \o <<"\n">> \o Fence}

\* the texts parseFullDecisionResponse is given
\* an opening fence with a space before its language tag
SpacedTag(j) == Fence \o <<" ", "json", "\n">> \o Bare(j) \o <<"\n">> \o Fence

ParseInputs ==
    {Bare(j) : j \in BodyNames} \cup FenceInputs
    \cup {SpacedTag("Jok"), Pre("Jbad"), <<"thinking", " ", "}", " ", "{">>}

\* decisions of the documented schema, riskNotes a list of strings
SchemaDecisions ==
    {[ZeroResponse EXCEPT !.Action = <<"open_long">>, !.Confidence = 80, !.Reason = <<"r">>,
                          !.SizeMultiplier = 1, !.TargetLeverage = 5,
                          !.StopLossPercent = 1, !.TakeProfitPercent = 3,
                          !.RiskNotes = << <<"a">>, <<"b">> >>],
     [ZeroResponse EXCEPT !.Action = <<"hold">>, !.Confidence = 40, !.Reason = <<"r">>,
                          !.SizeMultiplier = 1, !.TargetLeverage = 2]}

\* req ai.DecisionRequest, as far as the prompts read it
\* the requests: the prompt settings without news, and every news sentiment (the
\* score in hundredths) under one setting
PromptRequests ==
    [sharpe : {-6, 0, 7}, btcEthLeverage : {0, 3}, limits : Limits, symbol : {"BTCUSDT"},
     sentiment : {<<>>}, score : {0}, highlights : {<<>>}]
    \cup [sharpe : {0}, btcEthLeverage : {0}, limits : {NoLimits}, symbol : {"BTCUSDT"},
          sentiment : {<<>>, <<"neutral">>, <<"bullish">>, <<"none">>}, score : {0, 50},
          highlights : {<<>>, <<"h1">>}]

\* the wall-clock readings
Times == {"t1", "t2"}

BuildReflectionPrompt(s) ==
    /\ probe' = Probe("buildReflectionPrompt", s, buildReflectionPrompt(s))
    /\ UNCHANGED <<clientVars, serviceVars>>

ValidateDecisionResponse(a) ==
    /\ probe' = Probe("validateDecisionResponse", a,
                      validateDecisionResponse(a.decision, a.limits))
    /\ UNCHANGED <<clientVars, serviceVars>>

ParseRiskNotes(raw) ==
    /\ probe' = Probe("parseRiskNotes", raw, parseRiskNotes(raw))
    /\ UNCHANGED <<clientVars, serviceVars>>

TrimJSONFences(s) ==
    /\ probe' = Probe("trimJSONFences", s, trimJSONFences(s))
    /\ UNCHANGED <<clientVars, serviceVars>>

ParseFullDecisionResponse(raw) ==
    /\ probe' = Probe("parseFullDecisionResponse", raw, parseFullDecisionResponse(raw))
    /\ UNCHANGED <<clientVars, serviceVars>>

\* a decision is serialized and the text is parsed
RoundTrip(d, fenced) ==
    /\ probe' = Probe("roundTrip", [decision |-> d, fenced |-> fenced],
                      parseFullDecisionResponse(schemaText(Marshal(d), fenced)))
    /\ UNCHANGED <<clientVars, serviceVars>>

BuildSystemPrompt(req) ==
    /\ probe' = Probe("buildSystemPrompt", req, buildSystemPrompt(req))
    /\ UNCHANGED <<clientVars, serviceVars>>

BuildUserPrompt(req, now) ==
    /\ probe' = Probe("buildUserPrompt", req, buildUserPrompt(req, now))
    /\ UNCHANGED <<clientVars, serviceVars>>

NextFn ==
    \/ \E s \in SharpeRatios : BuildReflectionPrompt(s)
    \/ \E a \in ValidateInputs : ValidateDecisionResponse(a)
    \/ \E raw \in RiskNotesInputs : ParseRiskNotes(raw)
    \/ \E s \in FenceInputs : TrimJSONFences(s)
    \/ \E raw \in ParseInputs : ParseFullDecisionResponse(raw)
    \/ \E d \in SchemaDecisions, fenced \in BOOLEAN : RoundTrip(d, fenced)
    \/ \E req \in PromptRequests : BuildSystemPrompt(req)
    \/ \E req \in PromptRequests, now \in Times : BuildUserPrompt(req, now)

SpecFn == Init /\ [][NextFn]_vars

-----------------------------------------------------------------------------
(* the trader manager *)

\* the names in m.traders
registered(m) == {n \in TraderNames : m.traders[n] # "none"}

\* a Lock that excludes nobody
canLockAlways(m) == TRUE

\* sync.RWMutex: Lock waits for the writer and for the readers
canLock(m) == m.writer = "none" /\ m.readers = 0

\* sync.RWMutex: RLock waits for the writer, and for a Lock that is pending
canRLock(m) == m.writer = "none" /\ \A c \in RegCallers : m.reg[c].pc # "waiting"

\* an error channel without a buffer
errChUnbuffered(n) == 0

\* make(chan error, len(m.traders))
errChCapacity(n) == n

\* Register up to m.mu.Lock(): the nil check
Register(c, at) ==
    /\ mgr.reg[c].pc = "idle"
    /\ mgr' = IF at = "nil"
              THEN [mgr EXCEPT !.reg[c] = [pc |-> "idle", at |-> at, ret |-> "nil trader"]]
              ELSE [mgr EXCEPT !.reg[c] = [pc |-> "waiting", at |-> at, ret |-> "none"]]
    /\ UNCHANGED <<probe, clientVars, store, pool>>

\* Register from m.mu.Lock() on: the lock, the lookup, and the insertion or the
\* error, each followed by the deferred Unlock when it returns
registerLocked(c) ==
    /\ \/ /\ mgr.reg[c].pc = "waiting"
          /\ canLock(mgr)
          /\ mgr' = [mgr EXCEPT !.writer = c, !.reg[c].pc = "locked"]
       \/ /\ mgr.reg[c].pc = "locked"
          /\ mgr.traders[Name(mgr.reg[c].at)] # "none"
          /\ mgr' = [mgr EXCEPT !.writer = "none", !.reg[c].pc = "idle",
                                !.reg[c].ret = "already registered"]
       \/ /\ mgr.reg[c].pc = "locked"
          /\ mgr.traders[Name(mgr.reg[c].at)] = "none"
          /\ mgr' = [mgr EXCEPT !.reg[c].pc = "insert"]
       \/ /\ mgr.reg[c].pc = "insert"
          /\ mgr' = [mgr EXCEPT
                       !.traders[Name(mgr.reg[c].at)] = mgr.reg[c].at,
                       !.first[Name(mgr.reg[c].at)] =
                           IF @ = "none" THEN mgr.reg[c].at ELSE @,
                       !.writer = "none", !.reg[c].pc = "idle", !.reg[c].ret = "nil"]
    /\ UNCHANGED <<probe, clientVars, store, pool>>

\* Run: RLock; the error when nothing is registered, or the channel and one
\* goroutine for every trader; wg.Wait, close(errCh), the first error of the
\* channel or nil, and the deferred RUnlock
Run ==
    /\ \/ /\ mgr.run.pc \in {"idle", "done"}
          /\ canRLock(mgr)
          /\ mgr' = [mgr EXCEPT !.readers = @ + 1, !.run = [pc |-> "locked", ret |-> "none"]]
       \/ /\ mgr.run.pc = "locked"
          /\ registered(mgr) = {}
          /\ mgr' = [mgr EXCEPT !.readers = @ - 1,
                                !.run = [pc |-> "done", ret |-> "no traders registered"]]
       \/ /\ mgr.run.pc = "locked"
          /\ registered(mgr) # {}
          /\ mgr' = [mgr EXCEPT
                       !.run.pc = "wait",
                       !.errCh = <<>>,
                       !.cap = errChCapacity(Cardinality(registered(mgr))),
                       !.wg = Cardinality(registered(mgr)),
                       !.go = [n \in TraderNames |->
                                 IF n \in registered(mgr) THEN "running" ELSE "none"]]
       \/ /\ mgr.run.pc = "wait"
          /\ mgr.wg = 0
          /\ mgr' = [mgr EXCEPT
                       !.readers = @ - 1,
                       !.run = [pc |-> "done",
                                ret |-> IF mgr.errCh = <<>> THEN "nil" ELSE Head(mgr.errCh)]]
    /\ UNCHANGED <<probe, clientVars, store, pool>>

\* what at.Run(ctx) returns
RunResults == {"nil", "canceled", "error"}

\* the goroutine Run starts for the trader n: at.Run returns, the error that is
\* not context.Canceled is sent, and the deferred wg.Done
traderGoroutine(n) ==
    /\ \/ /\ mgr.go[n] = "running"
          /\ \E r \in RunResults :
                mgr' = [mgr EXCEPT !.go[n] = IF r = "error" THEN "send" ELSE "exit"]
       \/ /\ mgr.go[n] = "send"
          /\ Len(mgr.errCh) < mgr.cap
          /\ mgr' = [mgr EXCEPT !.errCh = Append(@, n), !.go[n] = "exit"]
       \/ /\ mgr.go[n] = "exit"
          /\ mgr' = [mgr EXCEPT !.wg = @ - 1, !.go[n] = "gone"]
    /\ UNCHANGED <<probe, clientVars, store, pool>>

\* Names: the keys of the registry, read under RLock
Names ==
    /\ canRLock(mgr)
    /\ mgr' = [mgr EXCEPT !.names = registered(mgr)]
    /\ UNCHANGED <<probe, clientVars, store, pool>>

\* the steps of Run's goroutines that need nothing but the scheduler: the send,
\* wg.Done, and the return of wg.Wait
managerProgress ==
    \/ \E n \in TraderNames : mgr.go[n] \in {"send", "exit"} /\ traderGoroutine(n)
    \/ mgr.run.pc = "wait" /\ Run

NextManager ==
    \/ \E c \in RegCallers, at \in Traders \cup {"nil"} : Register(c, at)
    \/ \E c \in RegCallers : registerLocked(c)
    \/ Run
    \/ \E n \in TraderNames : traderGoroutine(n)
    \/ Names

\* the Go scheduler runs every goroutine that can run
SpecManager == Init /\ [][NextManager]_vars /\ WF_vars(managerProgress)

-----------------------------------------------------------------------------
(* the file store; a record is the number of its line in its file *)

\* the Record calls of one run
MaxRecords == 2

\* the lines a record file can hold when the store is opened
FileLines == {0, recentLimit - 1, recentLimit + 1}

\* loadRecentDecisions, loadRecentTrades: the last recentLimit records of f lines
loadRecent(f) ==
    IF f > recentLimit THEN [i \in 1..recentLimit |-> f - recentLimit + i]
    ELSE [i \in 1..f |-> i]

newFileStore(fd, ft) ==
    /\ ~store.open
    /\ store' = [NoStore EXCEPT !.open = TRUE,
                                !.file = [decisions |-> fd, trades |-> ft],
                                !.buf = [decisions |-> loadRecent(fd),
                                         trades |-> loadRecent(ft)]]
    /\ UNCHANGED <<probe, clientVars, mgr, pool>>

\* RecordDecision and RecordTrade up to s.mu.Lock()
record(x, kind) ==
    /\ store.open
    /\ store.written < MaxRecords
    /\ store.w[x].pc = "idle"
    /\ store' = [store EXCEPT !.written = @ + 1,
                              !.w[x] = [pc |-> "lock", kind |-> kind, ret |-> "none"]]
    /\ UNCHANGED <<probe, clientVars, mgr, pool>>

RecordDecision(x) == record(x, "decisions")

RecordTrade(x) == record(x, "trades")

\* RecordDecision and RecordTrade from s.mu.Lock() on: the lock, the write to
\* the file, which can fail, the append, and the truncation with the return
recordLocked(x) ==
    /\ \/ /\ store.w[x].pc = "lock"
          /\ store.mu = "none"
          /\ store' = [store EXCEPT !.mu = x, !.w[x].pc = "write"]
       \/ /\ store.w[x].pc = "write"
          /\ store' = [store EXCEPT !.mu = "none", !.w[x].pc = "idle",
                                    !.w[x].ret = "write error"]
       \/ /\ store.w[x].pc = "write"
          /\ store' = [store EXCEPT !.file[store.w[x].kind] = @ + 1,
                                    !.w[x].pc = "append"]
       \/ /\ store.w[x].pc = "append"
          /\ store' = [store EXCEPT
                         !.buf[store.w[x].kind] = Append(@, store.file[store.w[x].kind]),
                         !.w[x].pc = "truncate"]
       \/ /\ store.w[x].pc = "truncate"
          /\ store' = [store EXCEPT
                         !.buf[store.w[x].kind] =
                             IF Len(@) > recentLimit
                             THEN SubSeq(@, Len(@) - recentLimit + 1, Len(@))
                             ELSE @,
                         !.mu = "none", !.w[x].pc = "idle", !.w[x].ret = "nil"]
    /\ UNCHANGED <<probe, clientVars, mgr, pool>>

\* RecentDecisions and RecentTrades, the if statement: limit against the
\* length of the buffer, which is read without s.mu
recent(x, kind, limit) ==
    /\ store.open
    /\ store.r[x].pc = "idle"
    /\ store' = [store EXCEPT
                   !.r[x] = [pc |-> "copy", kind |-> kind,
                             limit |-> IF limit <= 0 \/ limit > Len(store.buf[kind])
                                       THEN Len(store.buf[kind]) ELSE limit,
                             ret |-> <<>>, panic |-> FALSE]]
    /\ UNCHANGED <<probe, clientVars, mgr, pool>>

RecentDecisions(x, limit) == recent(x, "decisions", limit)

RecentTrades(x, limit) == recent(x, "trades", limit)

\* s.decisionsBuf[len(s.decisionsBuf)-limit:], or s.tradesBuf likewise, read
\* again without s.mu: the last limit records, or the run-time panic of a slice
\* expression whose low bound is negative
sliceFrom(b, limit) ==
    IF limit > Len(b) THEN [ret |-> <<>>, panic |-> TRUE]
    ELSE [ret |-> SubSeq(b, Len(b) - limit + 1, Len(b)), panic |-> FALSE]

recentCopy(x) ==
    /\ store.r[x].pc = "copy"
    /\ store' = [store EXCEPT
                   !.r[x].pc = "idle",
                   !.r[x].ret = sliceFrom(store.buf[store.r[x].kind], store.r[x].limit).ret,
                   !.r[x].panic =
                       sliceFrom(store.buf[store.r[x].kind], store.r[x].limit).panic]
    /\ UNCHANGED <<probe, clientVars, mgr, pool>>

NextStore ==
    \/ \E fd \in FileLines, ft \in FileLines : newFileStore(fd, ft)
    \/ \E x \in StoreWriters : RecordDecision(x)
    \/ \E x \in StoreWriters : RecordTrade(x)
    \/ \E x \in StoreWriters : recordLocked(x)
    \/ \E x \in StoreReaders, limit \in {0, 2} : RecentDecisions(x, limit)
    \/ \E x \in StoreReaders, limit \in {0, 2} : RecentTrades(x, limit)
    \/ \E x \in StoreReaders : recentCopy(x)

SpecStore == Init /\ [][NextStore]_vars

-----------------------------------------------------------------------------
(* the coin pool service; time in ticks *)

\* cfg.CacheTTL, in ticks
CacheTTL == 2

\* cfg.MaxCombined
MaxCombined == 3

\* the last tick of the clock
MaxClock == 4

defaultMainstreamCoins ==
    <<"BTCUSDT", "ETHUSDT", "SOLUSDT", "BNBUSDT", "XRPUSDT", "DOGEUSDT", "ADAUSDT",
      "HYPEUSDT">>

\* the symbols a source can return, sorted as extractSymbols sorts them; the
\* empty list is also the source that failed
FetchResults == {<<>>, <<"SOLUSDT">>, <<"AVAXUSDT", "BTCUSDT">>}

\* refresh, merge: the symbols of infos that aggregated lacks are added.  The
\* scores fall from 1.20 by 0.01 in the first source, from 1.00 in the second
\* and from 0.80 in the defaults, and a symbol keeps its highest score, so the
\* order by score is the order of addition.
RECURSIVE merge(_, _)
merge(aggregated, infos) ==
    IF infos = <<>> THEN aggregated
    ELSE IF \E i \in 1..Len(aggregated) : aggregated[i] = Head(infos)
    THEN merge(aggregated, Tail(infos))
    ELSE merge(Append(aggregated, Head(infos)), Tail(infos))

\* refresh: the defaults are merged when nothing was fetched or cfg.UseDefault is set
withDefaults(aggregated, useDefault) ==
    IF aggregated = <<>> \/ useDefault THEN merge(aggregated, defaultMainstreamCoins)
    ELSE aggregated

\* refresh: the list is cut to cfg.MaxCombined
combined(list) ==
    IF MaxCombined > 0 /\ Len(list) > MaxCombined THEN SubSeq(list, 1, MaxCombined)
    ELSE list

refresh(ai500, oiTop, useDefault) ==
    combined(withDefaults(merge(merge(<<>>, ai500), oiTop), useDefault))

\* Select: the fallback when refresh returns nothing
orDefaults(coins) == IF Len(coins) = 0 THEN defaultMainstreamCoins ELSE coins

cloneCoins(in, limit) ==
    SubSeq(in, 1, IF limit <= 0 \/ limit > Len(in) THEN Len(in) ELSE limit)

\* a cache that never expires
cacheFreshForever(cache, expires, now) == Len(cache) > 0

\* Select: len(s.cache) > 0 && now.Before(s.expires)
cacheFresh(cache, expires, now) == Len(cache) > 0 /\ now < expires

NewService(useDefault) ==
    /\ ~pool.open
    /\ pool' = [NoService EXCEPT !.open = TRUE, !.useDefault = useDefault]
    /\ UNCHANGED <<probe, clientVars, mgr, store>>

\* time passes
Clock ==
    /\ pool.open
    /\ pool.clock < MaxClock
    /\ pool' = [pool EXCEPT !.clock = @ + 1]
    /\ UNCHANGED <<probe, clientVars, mgr, store>>

\* Select up to s.mu.Lock()
Select(c, limit) ==
    /\ pool.open
    /\ pool.sel[c].pc = "idle"
    /\ pool' = [pool EXCEPT !.sel[c] = [NoSelect EXCEPT !.pc = "lock", !.limit = limit]]
    /\ UNCHANGED <<probe, clientVars, mgr, store>>

\* Select from s.mu.Lock() to the cache test: the copy of the cache is returned,
\* or refresh starts
selectLocked(c) ==
    /\ pool.sel[c].pc = "lock"
    /\ pool.mu = "none"
    /\ pool' =
         IF cacheFresh(pool.cache, pool.expires, pool.clock)
         THEN [pool EXCEPT
                 !.sel[c] = [@ EXCEPT
                    !.pc = "idle", !.done = TRUE, !.now = pool.clock, !.hit = TRUE,
                    !.before = [cache |-> pool.cache, expires |-> pool.expires],
                    !.after = [cache |-> pool.cache, expires |-> pool.expires],
                    !.ret = cloneCoins(pool.cache, pool.sel[c].limit)]]
         ELSE [pool EXCEPT
                 !.mu = c,
                 !.sel[c] = [@ EXCEPT
                    !.pc = "refresh", !.now = pool.clock, !.refreshes = 1,
                    !.before = [cache |-> pool.cache, expires |-> pool.expires]]]
    /\ UNCHANGED <<probe, clientVars, mgr, store>>

\* Select from the return of refresh on: the fallback, the new cache and its
\* expiry, the copy, and the deferred Unlock
selectRefreshed(c, coins) ==
    /\ pool.sel[c].pc = "refresh"
    /\ pool' = [pool EXCEPT
                  !.cache = orDefaults(coins),
                  !.expires = pool.sel[c].now + CacheTTL,
                  !.mu = "none",
                  !.sel[c] = [@ EXCEPT
                     !.pc = "idle", !.done = TRUE,
                     !.after = [cache |-> orDefaults(coins),
                                expires |-> pool.sel[c].now + CacheTTL],
                     !.ret = cloneCoins(orDefaults(coins), pool.sel[c].limit)]]
    /\ UNCHANGED <<probe, clientVars, mgr, store>>

NextPool ==
    \/ \E useDefault \in BOOLEAN : NewService(useDefault)
    \/ Clock
    \/ \E c \in PoolCallers, limit \in {0, 2} : Select(c, limit)
    \/ \E c \in PoolCallers : selectLocked(c)
    \/ \E c \in PoolCallers, ai500 \in FetchResults, oiTop \in FetchResults :
          selectRefreshed(c, refresh(ai500, oiTop, pool.useDefault))

SpecPool == Init /\ [][NextPool]_vars

-----------------------------------------------------------------------------
(* The claims *)

deepseekCall == call.provider = "deepseek"

returned == pc = "done"

\* the attempts of the running call that have returned, all failed and retryable
allRetryable(n) ==
    \A k \in 1..n : errLog[k].err # NoErr /\ isNetworkError(errLog[k].err)

\* a response that respects the limits, as the contract words it
Acceptable(resp, limits) ==
    /\ \/ ToLower(TrimSpace(resp.Action)) \in validActions
       \/ resp.Action = <<>>
    /\ resp.TargetLeverage >= 0
    /\ limits.MaxLeverage > 0 => resp.TargetLeverage <= limits.MaxLeverage
    /\ (resp.StopLossPercent > 0 /\ resp.TakeProfitPercent > 0
        /\ limits.MinRiskRewardRatio > 0)
       => resp.TakeProfitPercent >= limits.MinRiskRewardRatio * resp.StopLossPercent

\* C1: whichever backend runs, GenerateDecision returns a response with a nil
\* error only if the response passes validation against the request's limits.
C1_OnlyValidatedDecisions ==
    (returned /\ call.op = "GenerateDecision" /\ ret.err = NoErr)
    => Acceptable(ret.resp, call.limits)

\* C2: whenever GenerateDecision returns an error, from any stage, the response
\* it returns is the zero value.
C2_NoPartialResponse ==
    (returned /\ call.op = "GenerateDecision" /\ ret.err # NoErr)
    => ret.resp = ZeroResponse

\* a decision was parsed and validation rejected it
C2_Witness ==
    /\ returned /\ deepseekCall /\ call.op = "GenerateDecision"
    /\ ret.err = NewErr(<<"targetLeverage", "above", "limit">>)
    /\ ret.resp = ZeroResponse

\* C3: an attempt of CallWithMessages that fails with an error not classified
\* retryable is the last one: no attempt, request or sleep follows it, and the
\* call returns that very error.
C3_NonRetryableEndsCall ==
    deepseekCall =>
    \A k \in 1..Len(errLog) :
        (errLog[k].err # NoErr /\ ~isNetworkError(errLog[k].err))
        => /\ k = Len(errLog)
           /\ returned
           /\ attempt = k
           /\ Len(delays) = k - 1
           /\ inflight = 0
           /\ ret.err = errLog[k].err

\* two retryable failures, then a non-retryable one on the third attempt
C3_Witness ==
    /\ returned /\ deepseekCall /\ Len(errLog) = 3
    /\ allRetryable(2)
    /\ errLog[3].err # NoErr /\ ~isNetworkError(errLog[3].err)
    /\ ret.err = errLog[3].err

\* C4: an attempt that ends in a provider business failure (an error field in
\* the body, or no choices) is the last one of its call, whatever the message.
C4_BusinessFailureNotRetried ==
    deepseekCall =>
    \A k \in 1..Len(errLog) :
        errLog[k].kind \in {"payload_error", "no_choices"}
        => k = Len(errLog) /\ returned /\ Len(delays) = k - 1

\* the attempts that have started
started == Len(errLog) + (IF pc \in {"http", "qhttp"} THEN 1 ELSE 0)

\* C5, as amended: a call sends at most 3 requests, none while another is in
\* flight, at most one per attempt, and exactly one for every attempt that found
\* a credential; an attempt that finds the credential cleared sends none.
C5_AtMostThreeSequential ==
    /\ Len(httpLog) <= 3
    /\ inflight \in {0, 1}
    /\ inflight = 1 <=> pc \in {"http", "qhttp"}
    /\ \A i, j \in 1..Len(httpLog) : i < j => httpLog[i].attempt < httpLog[j].attempt
    /\ \A i \in 1..Len(httpLog) : httpLog[i].attempt \in 1..started
    /\ \A k \in 1..Len(errLog) :
           errLog[k].kind # "nokey" <=> \E i \in 1..Len(httpLog) : httpLog[i].attempt = k

\* three requests were sent, one after the other
C5_Witness == returned /\ Len(httpLog) = 3 /\ Len(errLog) = 3

\* C5, as claimed: every attempt sends exactly one request.
C5_ExactlyOnePerAttempt ==
    /\ Len(httpLog) <= 3
    /\ \A k \in 1..started : Cardinality({i \in 1..Len(httpLog) : httpLog[i].attempt = k}) = 1

\* C6: when k retryable failures are followed by a success, the call returns the
\* content of the successful attempt after k retries, and the n-th sleep of a
\* call lasts n x 2 seconds.
C6_SuccessAfterRetries ==
    /\ \A n \in 1..Len(delays) : delays[n] = n * 2
    /\ (returned /\ deepseekCall /\ Len(errLog) >= 1
        /\ errLog[Len(errLog)].err = NoErr /\ allRetryable(Len(errLog) - 1))
       => /\ Len(errLog) - 1 \in {0, 1, 2}
          /\ Len(delays) = Len(errLog) - 1
          /\ Len(httpLog) = Len(errLog)
          /\ call.op = "CallWithMessages"
             => ret.err = NoErr /\ ret.content = errLog[Len(errLog)].content

\* the third attempt succeeded, after sleeps of 2 and 4 seconds
C6_Witness ==
    /\ returned /\ deepseekCall /\ call.op = "CallWithMessages"
    /\ Len(errLog) = 3 /\ errLog[3].err = NoErr /\ errLog[3].content # <<>>
    /\ ret.content = errLog[3].content
    /\ delays = <<2, 4>>

\* C7: three retryable failures end the call after exactly three attempts, with
\* empty output and an error that names the count 3 and wraps the third error.
C7_ExhaustionError ==
    /\ Len(errLog) <= 3
    /\ (returned /\ deepseekCall /\ Len(errLog) = 3 /\ allRetryable(3))
       => /\ ret.err # NoErr
          /\ ret.content = <<>>
          /\ ret.resp = ZeroResponse
          /\ Contains(ret.err.text, "3")
          /\ HasSuffix(ret.err.text, errLog[3].err.text)
          /\ ret.err.typ = errLog[3].err.typ
          /\ Len(httpLog) = 3

\* the call is exhausted, and the third error differs from the first
C7_Witness ==
    /\ returned /\ deepseekCall /\ Len(errLog) = 3 /\ allRetryable(3)
    /\ errLog[1].err # errLog[3].err
    /\ ret.err = exhaustedErr(errLog[3].err)

\* C8: a call of GenerateDecision, of AnalyzeNews with articles or of
\* CallWithMessages that finds no stored key returns the configuration error
\* at once: no request, no attempt, no sleep.
C8_NoCredentialFailsFast ==
    (deepseekCall /\ call.keyAtEntry = <<>>
     /\ (call.op = "AnalyzeNews" => call.articles > 0))
    => /\ returned
       /\ ret = Ret(ZeroResponse, ZeroSummary, <<>>, ErrMissingKey)
       /\ httpLog = <<>>
       /\ errLog = <<>>
       /\ delays = <<>>
       /\ inflight = 0

\* AnalyzeNews, called with articles and no stored key, has failed for want of a key
C8_Witness ==
    /\ returned /\ deepseekCall /\ call.keyAtEntry = <<>>
    /\ call.op = "AnalyzeNews" /\ call.articles > 0
    /\ ret.err = ErrMissingKey

\* C9: every request of the deepseek client carries the key that the latest
\* SetDeepSeekAPIKey call completed before the attempt read the credential stored.
C9_LatestKeyUsed ==
    deepseekCall =>
    \A i \in 1..Len(httpLog) :
        httpLog[i].key = TrimSpace(httpLog[i].arg) /\ httpLog[i].key # <<>>

\* a rotation between two attempts of one call, used by the second
C9_Witness ==
    /\ deepseekCall /\ Len(httpLog) >= 2
    /\ httpLog[1].key = <<"k1">> /\ httpLog[2].key = <<"k2">>
    /\ httpLog[2].attempt = httpLog[1].attempt + 1

\* C10: a deepseek call whose ctx is cancelled during the backoff sleep does not
\* go on to another attempt.
C10_CancelStopsBackoff ==
    [][(cancelled /\ deepseekCall /\ pc = "sleep") => pc' # "send"]_vars

probed(op) == probe.op = op

NineActions ==
    {<<"open_long">>, <<"open_short">>, <<"increase_long">>, <<"increase_short">>,
     <<"close">>, <<"exit">>, <<"reduce">>, <<"hold">>, <<"wait">>}

\* the nine actions, as the contract spells them
NineActionsHyphenated ==
    {<<"open-long">>, <<"open-short">>, <<"increase-long">>, <<"increase-short">>,
     <<"close">>, <<"exit">>, <<"reduce">>, <<"hold">>, <<"wait">>}

unknownActionError(err) == err # NoErr /\ Head(err.text) = "unknown"

leverageError(err) == err # NoErr /\ Head(err.text) = "targetLeverage"

actionAllowed(d) == ToLower(TrimSpace(d.Action)) \in NineActions \cup {<<>>}

leverageAllowed(d, l) ==
    d.TargetLeverage >= 0 /\ (l.MaxLeverage > 0 => d.TargetLeverage <= l.MaxLeverage)

\* C12: validateDecisionResponse returns an error whenever targetLeverage < 0 and
\* whenever maxLeverage > 0 and targetLeverage > maxLeverage; a targetLeverage
\* equal to maxLeverage, and any non-negative one when maxLeverage is 0, is not
\* rejected for its leverage.
C12_LeverageLimits ==
    probed("validateDecisionResponse") =>
        /\ ~leverageAllowed(probe.in.decision, probe.in.limits) => probe.out # NoErr
        /\ leverageAllowed(probe.in.decision, probe.in.limits) => ~leverageError(probe.out)

\* targetLeverage 10 under maxLeverage 5 has been rejected
C12_Witness ==
    /\ probed("validateDecisionResponse")
    /\ probe.in.decision.Action = <<"hold">>
    /\ probe.in.decision.TargetLeverage = 10 /\ probe.in.limits.MaxLeverage = 5
    /\ leverageError(probe.out)

\* takeProfit / stopLoss + 1e-9 < min, for the pairs enumerated: a pair in units
\* of 1e-9 has stopLoss = 1, and otherwise the tolerance is below one unit
ratioBelow(tp, sl, min) ==
    IF sl = TolDen THEN tp + 1 < min * TolDen ELSE tp < min * sl

\* C13: on a decision that passes the action and leverage checks, the
\* risk/reward check rejects iff stopLoss > 0, takeProfit > 0, the minimum > 0 and
\* takeProfit / stopLoss is below the minimum by more than 1e-9.
C13_RiskRewardVeto ==
    (/\ probed("validateDecisionResponse")
     /\ actionAllowed(probe.in.decision)
     /\ leverageAllowed(probe.in.decision, probe.in.limits))
    => (probe.out # NoErr <=>
          /\ probe.in.decision.StopLossPercent > 0
          /\ probe.in.decision.TakeProfitPercent > 0
          /\ probe.in.limits.MinRiskRewardRatio > 0
          /\ ratioBelow(probe.in.decision.TakeProfitPercent,
                        probe.in.decision.StopLossPercent,
                        probe.in.limits.MinRiskRewardRatio))

\* stopLoss 1, takeProfit 2 under the minimum 3 has been rejected
C13_Witness ==
    /\ probed("validateDecisionResponse")
    /\ probe.in.decision.Action = <<"hold">> /\ probe.in.decision.TargetLeverage = 0
    /\ probe.in.decision.StopLossPercent = 1 /\ probe.in.decision.TakeProfitPercent = 2
    /\ probe.in.limits.MinRiskRewardRatio = 3
    /\ probe.out = NewErr(<<"risk", "reward", "below", "minimum">>)

\* C14, as amended: validateDecisionResponse accepts an action iff, white space
\* around it removed and compared case-insensitively, it is one of the nine
\* actions spelled with underscores or it is empty.
C14_ActionEnumeration ==
    probed("validateDecisionResponse") =>
        (unknownActionError(probe.out) <=> ~actionAllowed(probe.in.decision))

\* OPEN_LONG, in capitals after a space, has been accepted
C14_Witness ==
    /\ probed("validateDecisionResponse")
    /\ probe.in.decision.Action = <<" ", "OPEN_LONG">>
    /\ probe.out = NoErr

\* C14, as claimed: the action is accepted iff, compared case-insensitively, it is
\* one of open-long, open-short, increase-long, increase-short, close, exit,
\* reduce, hold, wait, or the empty string.
C14_HyphenatedEnumeration ==
    probed("validateDecisionResponse") =>
        (unknownActionError(probe.out)
         <=> ToLower(probe.in.decision.Action) \notin NineActionsHyphenated \cup {<<>>})

allStrings(items) == \A i \in 1..Len(items) : items[i].ty = "str"

\* C15: riskNotes coercion: absent or null gives the empty list; a list of
\* strings is kept; a single string becomes a one-element list, or the empty list
\* when blank; [1,"b",true] gives ["1","b","true"]; a number, a boolean or an
\* object is an error, and the decision that holds it fails to parse.
C15_RiskNotesCoercion ==
    /\ probed("parseRiskNotes") =>
        /\ probe.in.k \in {"absent", "null"} => probe.out = [notes |-> <<>>, ok |-> TRUE]
        /\ (probe.in.k = "list" /\ allStrings(probe.in.items))
           => /\ probe.out.ok
              /\ Len(probe.out.notes) = Len(probe.in.items)
              /\ \A i \in 1..Len(probe.in.items) : probe.out.notes[i] = probe.in.items[i].s
        /\ probe.in.k = "str"
           => /\ probe.out.ok
              /\ probe.out.notes = IF \A i \in 1..Len(probe.in.items[1].s) :
                                         IsSpace(probe.in.items[1].s[i])
                                   THEN <<>> ELSE <<probe.in.items[1].s>>
        /\ probe.in = Body("Jmixed").riskNotes
           => probe.out = [notes |-> << <<"1">>, <<"b">>, <<"true">> >>, ok |-> TRUE]
        /\ probe.in.k \in {"num", "bool", "obj"} => ~probe.out.ok
    /\ (probed("parseFullDecisionResponse")
        /\ probe.in \in {Bare("Jnum"), Bare("Jbool"), Bare("Jobj")})
       => probe.out.err # NoErr /\ probe.out.resp = ZeroResponse

\* the list [1,"b",true] has been coerced
C15_Witness ==
    /\ probed("parseRiskNotes")
    /\ probe.in.k = "list" /\ ~allStrings(probe.in.items)
    /\ probe.out.notes = << <<"1">>, <<"b">>, <<"true">> >>

\* C16: fence-stripping is idempotent: trimJSONFences(trimJSONFences(s)) =
\* trimJSONFences(s) for every string s.
C16_FenceStripIdempotent ==
    probed("trimJSONFences") => trimJSONFences(probe.out) = probe.out

\* C17: a decision serialized in the documented schema, bare or in a fenced
\* block, parses without error into a response equal to it field for field.
C17_RoundTrip ==
    probed("roundTrip") =>
        /\ probe.out.err = NoErr
        /\ [probe.out.resp EXCEPT !.RawContent = <<>>, !.CoTTrace = <<>>] = probe.in.decision

\* a decision with two risk notes went through a fenced block
C17_Witness ==
    /\ probed("roundTrip") /\ probe.in.fenced
    /\ probe.in.decision.RiskNotes = << <<"a">>, <<"b">> >>
    /\ probe.out.err = NoErr
    /\ probe.out.resp.TargetLeverage = 5

\* the text the successful structural parse of a model output was run on
parsedText(stripped) ==
    IF decodeDecision(stripped).ok THEN stripped
    ELSE SubSeq(stripped, Index(stripped, "{"), LastIndex(stripped, "}"))

\* C18: on every successful decision RawContent holds the text the successful
\* structural parse used: the fence-stripped text, or its part from the first
\* opening brace to the last closing brace when only that part parsed.
C18_RawContentIsParsedText ==
    (returned /\ deepseekCall /\ call.op = "GenerateDecision" /\ ret.err = NoErr)
    => ret.resp.RawContent = parsedText(trimJSONFences(errLog[Len(errLog)].content))

\* C19: AnalyzeNews with an empty article list returns the sentiment neutral
\* with a nil error and sends no request, for the deepseek and the qwen client.
C19_EmptyArticlesNeutral ==
    (returned /\ call.op = "AnalyzeNews" /\ call.articles = 0)
    => /\ ret.err = NoErr
       /\ ret.summary = [Sentiment |-> <<"neutral">>]
       /\ httpLog = <<>>

\* C20: two calls of buildSystemPrompt, and two calls of buildUserPrompt, on the
\* same request return the same text, whatever the time of the calls.
C20_PromptsReproducible ==
    [][(/\ probe.op \in {"buildSystemPrompt", "buildUserPrompt"}
        /\ probe'.op = probe.op
        /\ probe'.in = probe.in)
       => probe'.out = probe.out]_vars

\* the outcome of a parse that returned an error and no response
parseRejected == probe.out.err # NoErr /\ probe.out.resp = ZeroResponse

\* the structured fields of a response
structured(r) == <<r.Action, r.Confidence, r.Reason, r.SizeMultiplier, r.TargetLeverage,
                   r.StopLossPercent, r.TakeProfitPercent, r.RiskNotes>>

\* the part of a text from its first opening brace to its last closing brace
braced(t) == SubSeq(t, Index(t, "{"), LastIndex(t, "}"))

\* a text whose braced part exists and decodes
bracedDecodes(t) ==
    /\ Index(t, "{") >= 1 /\ LastIndex(t, "}") > Index(t, "{")
    /\ decodeDecision(braced(t)).ok

\* C21: when the fence-stripped text does not parse as a whole but its part from
\* the first opening brace to the last closing brace does, the parse succeeds
\* with the fields of that part; when neither parses, or the stripped text is
\* empty, the parse returns an error and no response.
C21_BraceFallback ==
    probed("parseFullDecisionResponse") =>
        /\ trimJSONFences(probe.in) = <<>> => parseRejected
        /\ (/\ trimJSONFences(probe.in) # <<>>
            /\ ~decodeDecision(trimJSONFences(probe.in)).ok
            /\ bracedDecodes(trimJSONFences(probe.in)))
           => /\ probe.out.err = NoErr
              /\ structured(probe.out.resp)
                 = structured(decodeDecision(braced(trimJSONFences(probe.in))).resp)
        /\ (/\ ~decodeDecision(trimJSONFences(probe.in)).ok
            /\ ~bracedDecodes(trimJSONFences(probe.in)))
           => parseRejected

\* an object preceded by reasoning text was parsed from its braced part
C21_Witness ==
    /\ probed("parseFullDecisionResponse") /\ probe.in = Pre("Jyolo")
    /\ ~decodeDecision(trimJSONFences(probe.in)).ok
    /\ probe.out.err = NoErr /\ probe.out.resp.Action = <<"yolo">>

\* the text before the first opening brace, without surrounding space and fence marks
preamble(t) == traceBefore(t, Index(t, "{"))

\* C22: on every successful parse CoTTrace is the text before the first opening
\* brace of the fence-stripped output, trimmed of space and fence marks, for
\* every opening fence that fence-stripping accepts.
C22_TraceIsPreamble ==
    (probed("parseFullDecisionResponse") /\ probe.out.err = NoErr)
    => probe.out.resp.CoTTrace = preamble(trimJSONFences(probe.in))

\* the user prompt holds the news section
hasNewsSection == \E i \in 1..Len(probe.out) : probe.out[i] = "news"

\* C23: buildUserPrompt omits the news section when the request's sentiment is
\* empty, and when it is "neutral" with score 0; otherwise the section is there.
C23_NewsSectionOmitted ==
    probed("buildUserPrompt") =>
        (hasNewsSection <=> ~(\/ probe.in.sentiment = <<>>
                              \/ (probe.in.sentiment = <<"neutral">> /\ probe.in.score = 0)))

\* the first attempt of the returned GenerateDecision call failed and was retryable
firstAttemptRetryable ==
    /\ returned /\ call.op = "GenerateDecision" /\ Len(errLog) >= 1
    /\ errLog[1].err # NoErr /\ isNetworkError(errLog[1].err)

\* C24: the invocation and backoff logic is the same for both backends: a
\* GenerateDecision call whose first attempt fails with a retryable error makes
\* a second attempt, after one backoff wait, with the deepseek and the qwen client.
C24_BackendAgnostic ==
    firstAttemptRetryable => (Len(errLog) >= 2 /\ Len(delays) >= 1)

\* C25: a call waits only between attempts: at most two waits, before attempt 2
\* and before attempt 3, of 3 x baseRetryDelay in all; none after the third attempt.
C25_WaitsOnlyBetweenAttempts ==
    deepseekCall =>
        /\ Len(delays) <= maxRetries - 1
        /\ Len(delays) <= Len(errLog)
        /\ (returned /\ Len(errLog) = maxRetries) => delays = <<baseRetryDelay, 2 * baseRetryDelay>>

\* C26: an attempt that finds the credential cleared sends no request and ends
\* the call with the missing-credential error: it is the last attempt, nothing is
\* in flight, and no wait follows it.
C26_ClearedKeyEndsCall ==
    \A k \in 1..Len(errLog) :
        errLog[k].kind = "nokey" =>
            /\ k = Len(errLog)
            /\ returned
            /\ ret = Ret(ZeroResponse, ZeroSummary, <<>>, ErrMissingKey)
            /\ Len(httpLog) = k - 1
            /\ \A i \in 1..Len(httpLog) : httpLog[i].attempt # k
            /\ Len(delays) = k - 1
            /\ inflight = 0

\* the key was cleared during the first backoff: the second attempt sent nothing
C26_Witness ==
    /\ returned /\ deepseekCall /\ call.keyAtEntry # <<>>
    /\ Len(errLog) = 2 /\ errLog[2].kind = "nokey"
    /\ Len(httpLog) = 1 /\ delays = <<baseRetryDelay>>
    /\ ret.err = ErrMissingKey

\* every goroutine Run started is past at.Run, and Run is in wg.Wait
allTradersReturned ==
    mgr.run.pc = "wait" /\ \A n \in TraderNames : mgr.go[n] # "running"

\* C27 (safety): while Run waits, one goroutine exists for every registered
\* trader and none for any other name; Run has returned only when every
\* goroutine it started (go is "none" for a name registered since) is past
\* at.Run and wg.Done; a goroutine that reports
\* its error finds room in errCh; with no trader registered Run has returned
\* an error and started nothing.
C27_RunSafety ==
    /\ mgr.run.pc = "wait" =>
          \A n \in TraderNames : (mgr.go[n] # "none") <=> (n \in registered(mgr))
    /\ (mgr.run.pc = "done" /\ mgr.run.ret # "no traders registered") =>
          /\ \E n \in TraderNames : mgr.go[n] = "gone"
          /\ \A n \in TraderNames : mgr.go[n] \in {"none", "gone"}
          /\ mgr.wg = 0
    /\ \A n \in TraderNames : mgr.go[n] = "send" => Len(mgr.errCh) < mgr.cap
    /\ Len(mgr.errCh) <= mgr.cap
    /\ (mgr.run.pc = "done" /\ mgr.run.ret = "no traders registered") =>
          \A n \in TraderNames : mgr.go[n] = "none"

\* C27: TraderManager.Run returns only after the Run of every registered trader
\* has returned, and once they all have it terminates: no goroutine blocks on
\* errCh, whose capacity is the number of traders; with no trader registered
\* Run returns an error without starting anything.
C27_RunWaitsAndTerminates ==
    /\ []C27_RunSafety
    /\ allTradersReturned ~> (mgr.run.pc = "done")

\* Run has returned the error of one of two traders that both failed
C27_Witness ==
    /\ mgr.run.pc = "done" /\ Len(mgr.errCh) = 2
    /\ mgr.run.ret = Head(mgr.errCh)
    /\ \A n \in TraderNames : mgr.go[n] = "gone"

\* C28: the registry maps each name to the first trader registered under it:
\* Register with nil or with a registered name returns an error and changes
\* nothing, a Register that returned nil has its trader in the registry, and a
\* Register call holds the lock, with no Run executing, while it looks up and inserts.
C28_FirstRegistrationWins ==
    /\ mgr.traders = mgr.first
    /\ \A c \in RegCallers :
          /\ mgr.reg[c].ret = "nil trader" => mgr.reg[c].at = "nil"
          /\ mgr.reg[c].ret = "already registered" =>
                /\ mgr.traders[Name(mgr.reg[c].at)] # "none"
                /\ mgr.reg[c].pc = "idle"
          /\ mgr.reg[c].ret = "nil" => mgr.traders[Name(mgr.reg[c].at)] = mgr.reg[c].at
          /\ mgr.reg[c].pc \in {"locked", "insert"} =>
                /\ mgr.writer = c
                /\ mgr.readers = 0
                /\ mgr.run.pc \in {"idle", "done"}

\* two callers registered traders of one name concurrently: the first is kept,
\* the second was refused, and Run has since started the first
C28_Witness ==
    /\ mgr.reg["r1"].at = "t2" /\ mgr.reg["r1"].ret = "already registered"
    /\ mgr.reg["r2"].at = "t1" /\ mgr.reg["r2"].ret = "nil"
    /\ mgr.traders["a"] = "t1"
    /\ mgr.run.pc = "wait"

\* a writer is between its append to the buffer of this kind and its return
mutating(kind) ==
    \E x \in StoreWriters :
        store.w[x].kind = kind /\ store.w[x].pc \in {"append", "truncate"}

\* C29: no RecentDecisions or RecentTrades call reads a buffer while a Record
\* call is appending to it or truncating it, and a reader returns, without a
\* panic, at most recentLimit records: the last ones of the file, in order.
C29_ReadersExcluded ==
    \A x \in StoreReaders :
        /\ store.r[x].pc = "copy" => ~mutating(store.r[x].kind)
        /\ ~store.r[x].panic
        /\ Len(store.r[x].ret) <= recentLimit
        /\ \A i \in 1..Len(store.r[x].ret) :
              /\ store.r[x].ret[i] <= store.file[store.r[x].kind]
              /\ i > 1 => store.r[x].ret[i] = store.r[x].ret[i - 1] + 1

\* the list out is a copy of the first entries of the list in: all of them
\* without a limit, as many as the limit allows with one
prefixOf(out, in, limit) ==
    /\ Len(out) <= Len(in)
    /\ \A i \in 1..Len(out) : out[i] = in[i]
    /\ (limit <= 0 \/ limit > Len(in)) => Len(out) = Len(in)
    /\ (limit > 0 /\ limit <= Len(in)) => Len(out) = limit

\* the Select call s found a cache that was not empty and had not expired
foundFresh(s) == s.before.cache # <<>> /\ s.now < s.before.expires

\* C30: a Select call that finds the cache non-empty and unexpired runs no
\* refresh, leaves the cache alone and returns a copy of a prefix of it, at most
\* limit entries when limit > 0; every other call runs exactly one refresh,
\* whose result replaces the cache, with the expiry now + CacheTTL; the
\* returned list is never empty; at most one refresh runs at a time.
C30_SelectServesCache ==
    /\ \A c \in PoolCallers :
          pool.sel[c].done =>
             /\ pool.sel[c].hit <=> foundFresh(pool.sel[c])
             /\ pool.sel[c].hit =>
                   /\ pool.sel[c].refreshes = 0
                   /\ pool.sel[c].after = pool.sel[c].before
             /\ ~pool.sel[c].hit =>
                   /\ pool.sel[c].refreshes = 1
                   /\ pool.sel[c].after.expires = pool.sel[c].now + CacheTTL
             /\ prefixOf(pool.sel[c].ret, pool.sel[c].after.cache, pool.sel[c].limit)
             /\ pool.sel[c].ret # <<>>
             /\ pool.sel[c].limit > 0 => Len(pool.sel[c].ret) <= pool.sel[c].limit
    /\ \A c \in PoolCallers, d \in PoolCallers :
          (pool.sel[c].pc = "refresh" /\ pool.sel[d].pc = "refresh") => c = d
    /\ \A c \in PoolCallers : pool.sel[c].pc = "refresh" => pool.mu = c

\* one call found the cache expired and refreshed it, the other was then
\* served two entries of the new cache
C30_Witness ==
    /\ pool.sel["s1"].done /\ ~pool.sel["s1"].hit
    /\ pool.sel["s1"].before.cache # <<>>
    /\ pool.sel["s1"].now >= pool.sel["s1"].before.expires
    /\ pool.sel["s2"].done /\ pool.sel["s2"].hit
    /\ pool.sel["s2"].before = pool.sel["s1"].after
    /\ pool.sel["s2"].limit = 2 /\ Len(pool.sel["s2"].ret) = 2

====
